---- MODULE Spec2Model ----
(***************************************************************************)
(* A model of doom-wled: the raycasting game loop of wled_game.py (player  *)
(* movement, firing, timers, the time-gated stream to the WLED matrix),    *)
(* the marching loop of cast_ray, and the two pixel-index mappers          *)
(* (wled_game.py, calibrate_wled.py).                                      *)
(*                                                                         *)
(* Reals are fixed point: a length is an integer number of 1/Scale grid    *)
(* cells, an angle is an integer number of rot_speed steps (0.05 rad), and *)
(* cos/sin are read from a table of round(Scale * cos(0.05 k)).            *)
(***************************************************************************)
EXTENDS Integers, Sequences, FiniteSets, TLC

VARIABLES
    \* RaycastGame
    player_x, player_y, player_angle,       \* position, heading
    muzzle_flash_timer, shot_cooldown,      \* timers
    bullet_impacts,                          \* Seq of <<impact_x, timer>>
    running,                                 \* self.running
    \* run_with_wled_stream
    pc,                                      \* the statement the loop is at
    now,                                     \* time.time(), in ms since the loop was entered
    last_wled_update,                        \* in ms
    frame_count,                             \* WLEDStreamer.frame_count
    surface,                                 \* the frame the last render drew, downscaled
    \* history of the current tick
    keys,                                    \* the key snapshot handle_input polled
    trail,                                   \* the moves handle_input proposed
    fired,                                   \* handle_input called shoot()
    expired,                                 \* impacts update_timers removed
    steps,                                   \* the steps of the iteration done so far
    outcome,                                 \* what the iteration's post met ("none": no post)
    ret,                                     \* what send_frame_to_wled returned
    \* history of the run
    since,                                   \* ticks since the last shoot(), -1: none yet
    free,                                    \* ticks with an arbitrary key snapshot
    iters,                                   \* iterations started
    attempts,                                \* stream attempts
    responses,                               \* posts that returned a response
    last_attempt,                            \* current_time of the last attempt, -1: none
    prev_attempt,                            \* current_time of the attempt before it, -1: none
    sent,                                    \* the frame of the last payload posted
    \* the loop that builds the pixel array (send_frame_to_wled, show_xy_pattern)
    m_tool,                                  \* "game" or "calibrate"
    m_frame,                                 \* the frame or pattern being sent
    m_pos,                                   \* passes done: the next is y = m_pos \div 16, x = m_pos % 16
    m_leds,                                  \* ordered_leds / leds, a function on 0..127
    m_writes,                                \* history: how often each index was written
    m_idx,                                   \* history: the index the last pass computed
    \* the marching loop of cast_ray
    ray_x, ray_y,                            \* the marched point
    ray_n,                                   \* passes of the loop done
    ray_ret                                  \* what cast_ray returned, <<>> before it returns

gameVars == <<player_x, player_y, player_angle, muzzle_flash_timer,
              shot_cooldown, bullet_impacts>>
tickVars == <<keys, trail, fired, since>>
loopVars == <<now, last_wled_update, frame_count, surface, steps, outcome, ret,
              iters, attempts, responses, last_attempt, prev_attempt, sent>>
mapVars == <<m_tool, m_frame, m_pos, m_leds, m_writes, m_idx>>
rayVars == <<ray_x, ray_y, ray_n, ray_ret>>

vars == <<player_x, player_y, player_angle, muzzle_flash_timer, shot_cooldown,
          bullet_impacts, running, pc, now, last_wled_update, frame_count,
          surface, keys, trail, fired, expired, steps, outcome, ret, since,
          free, iters, attempts, responses, last_attempt, prev_attempt, sent,
          m_tool, m_frame, m_pos, m_leds, m_writes, m_idx,
          ray_x, ray_y, ray_n, ray_ret>>

----------------------------------------------------------------------------
(* Bounds of the model *)

\* Largest |player_angle| (in rot_speed steps) the model lets the player turn to.
MaxTurn == 1

\* Number of ticks with an arbitrary key snapshot the movement specification
\* explores after the player has walked to a wall.
MaxFreeTicks == 1

\* Number of iterations of the main loop the loop specification explores
\* before the quit event must arrive.
MaxIters == 4

----------------------------------------------------------------------------
(* Program constants *)

Scale == 10000            \* fixed-point units per grid cell

MATRIX_WIDTH == 16
MATRIX_HEIGHT == 8
GAME_WIDTH == 320

\* self.move_speed = 0.05 (grid cells), in 1/Scale units
move_speed == 500
\* self.rot_speed = 0.05 rad = one angle step
rot_speed == 1
\* cast_ray's step length 0.02, in 1/Scale units
ray_step == 200
\* cast_ray's range(200)
ray_max_steps == 200
\* cast_ray's no-hit distance 100, in 1/Scale units
NoHitDist == 1000000

\* self.map: 1 = wall, 0 = empty; Map[row + 1][column + 1]
Map == << <<1,1,1,1,1,1,1,1>>,
          <<1,0,0,0,0,0,0,1>>,
          <<1,0,1,0,0,1,0,1>>,
          <<1,0,0,0,0,0,0,1>>,
          <<1,0,1,0,0,1,0,1>>,
          <<1,0,0,0,0,0,0,1>>,
          <<1,0,0,1,1,0,0,1>>,
          <<1,1,1,1,1,1,1,1>> >>

MapRows == Len(Map)
MapCols == Len(Map[1])

\* shoot(): muzzle_flash_timer = 5, shot_cooldown = 10, an impact lasts 10
FlashTicks == 5
CooldownTicks == 10
ImpactTicks == 10
\* shoot(): "if dist < 10", in grid cells
HitRange == 10

\* wled_frame_time = 1.0 / 20, in ms
wled_frame_time == 50
\* clock.tick(35): an iteration lasts at least 1000 // 35 ms
FrameMs == 28
\* session.post(..., timeout=0.05), in ms
PostTimeoutMs == 50

\* player_x = player_y = 3.5
StartX == 35000
StartY == 35000

----------------------------------------------------------------------------
(* Arithmetic of the fixed-point model *)

Abs(v) == IF v >= 0 THEN v ELSE -v

\* Python's int(): truncation toward zero of a fixed-point value
Trunc(v) == IF v >= 0 THEN v \div Scale ELSE -((-v) \div Scale)

\* a * b / Scale rounded to the nearest unit (half away from zero)
MulRound(a, b) ==
    LET p == a * b
    IN  IF p >= 0 THEN (2 * p + Scale) \div (2 * Scale)
                  ELSE -((2 * (-p) + Scale) \div (2 * Scale))

\* round(Scale * cos(0.05 k)), k = 0..63
CosTable == <<10000, 9988, 9950, 9888, 9801, 9689, 9553, 9394, 9211, 9004,
              8776, 8525, 8253, 7961, 7648, 7317, 6967, 6600, 6216, 5817,
              5403, 4976, 4536, 4085, 3624, 3153, 2675, 2190, 1700, 1205,
              707, 208, -292, -791, -1288, -1782, -2272, -2756, -3233, -3702,
              -4161, -4611, -5048, -5474, -5885, -6282, -6663, -7027, -7374,
              -7702, -8011, -8301, -8569, -8816, -9041, -9243, -9422, -9578,
              -9710, -9817, -9900, -9958, -9991, -10000>>

\* round(Scale * sin(0.05 k)), k = 0..63
SinTable == <<0, 500, 998, 1494, 1987, 2474, 2955, 3429, 3894, 4350,
              4794, 5227, 5646, 6052, 6442, 6816, 7174, 7513, 7833, 8134,
              8415, 8674, 8912, 9128, 9320, 9490, 9636, 9757, 9854, 9927,
              9975, 9998, 9996, 9969, 9917, 9840, 9738, 9613, 9463, 9290,
              9093, 8874, 8632, 8369, 8085, 7781, 7457, 7115, 6755, 6378,
              5985, 5577, 5155, 4720, 4274, 3817, 3350, 2875, 2392, 1904,
              1411, 915, 416, -84>>

\* np.cos / np.sin of an angle of k steps
CosStep(k) == CosTable[Abs(k) + 1]
SinStep(k) == IF k >= 0 THEN SinTable[k + 1] ELSE -SinTable[(-k) + 1]

\* np.cos(angle + q * pi/2), np.sin(angle + q * pi/2) for q in {-1, 0, 1}
Cos(k, q) == CASE q = 0 -> CosStep(k)
               [] q = -1 -> SinStep(k)
               [] q = 1 -> -SinStep(k)
Sin(k, q) == CASE q = 0 -> SinStep(k)
               [] q = -1 -> -CosStep(k)
               [] q = 1 -> CosStep(k)

----------------------------------------------------------------------------
(* The grid map *)

\* self.map[my][mx] with Python's list indexing: a negative index counts from
\* the end, an index outside -len..len-1 raises IndexError
PyIndexOk(i, n) == -n <= i /\ i < n
PyIndex(i, n) == IF i >= 0 THEN i + 1 ELSE n + i + 1

MapLookup(mx, my) ==
    IF PyIndexOk(my, MapRows) /\ PyIndexOk(mx, MapCols)
    THEN Map[PyIndex(my, MapRows)][PyIndex(mx, MapCols)]
    ELSE -1         \* IndexError

----------------------------------------------------------------------------
(* RaycastGame.cast_ray *)

\* The point after n passes of the marching loop (ray_x += dx, ray_y += dy)
RayPoint(px, py, dx, dy, n) == <<px + n * dx, py + n * dy>>

\* The loop's test with the bounds tests left out: self.map[map_y][map_x]
\* indexed as Python indexes a list
RayHits_NoBounds(px, py, dx, dy, n) ==
    MapLookup(Trunc(RayPoint(px, py, dx, dy, n)[1]),
              Trunc(RayPoint(px, py, dx, dy, n)[2])) = 1

\* The loop's test at the n-th marched point: inside the grid, and a wall
RayHits(px, py, dx, dy, n) ==
    LET map_x == Trunc(RayPoint(px, py, dx, dy, n)[1])
        map_y == Trunc(RayPoint(px, py, dx, dy, n)[2])
    IN  /\ 0 <= map_y /\ map_y < MapRows
        /\ 0 <= map_x /\ map_x < MapCols
        /\ Map[map_y + 1][map_x + 1] = 1

\* np.sqrt of a sum of two squares, to the nearest unit
RECURSIVE SqrtFloor(_, _, _)
SqrtFloor(v, lo, hi) ==
    IF lo >= hi THEN lo
    ELSE LET mid == (lo + hi + 1) \div 2
         IN  IF mid * mid <= v THEN SqrtFloor(v, mid, hi)
                               ELSE SqrtFloor(v, lo, mid - 1)

Hypot(a, b) ==
    LET v == a * a + b * b
        r == SqrtFloor(v, 0, 46340)
    IN  IF v - r * r > r THEN r + 1 ELSE r

\* "dx = np.cos(angle) * 0.02", "dy = np.sin(angle) * 0.02"
RayDx(k) == MulRound(CosStep(k), ray_step)
RayDy(k) == MulRound(SinStep(k), ray_step)

\* What the loop returns at pass n when that pass hits: the distance of the
\* marched point from the player, and (map_x + map_y) % 2
RayResult(px, py, dx, dy, n) ==
    LET at == RayPoint(px, py, dx, dy, n)
    IN  <<Hypot(at[1] - px, at[2] - py), (Trunc(at[1]) + Trunc(at[2])) % 2>>

\* The loop returns at the first pass that hits; after ray_max_steps passes
\* without a hit it returns <<100, 0>>.
cast_ray(px, py, k) ==
    LET dx == RayDx(k)
        dy == RayDy(k)
        hits == {n \in 1..ray_max_steps : RayHits(px, py, dx, dy, n)}
    IN  IF hits = {} THEN <<NoHitDist, 0>>
        ELSE LET n == CHOOSE m \in hits : \A o \in hits : m <= o
             IN  RayResult(px, py, dx, dy, n)

----------------------------------------------------------------------------
(* RaycastGame.handle_input, shoot, update_timers as functions of the game *)
(* state g = [x, y, ang, flash, cool, impacts, err, trail, fired]          *)

KEYS == {"LEFT", "RIGHT", "UP", "DOWN", "A", "D", "SPACE"}

\* A movement block that tests each axis on its own (wall sliding)
TryMove_Slide(g, pressed, sign, q) ==
    IF ~pressed \/ g.err THEN g
    ELSE LET new_x == g.x + sign * MulRound(Cos(g.ang, q), move_speed)
             new_y == g.y + sign * MulRound(Sin(g.ang, q), move_speed)
             to_x == IF MapLookup(Trunc(new_x), Trunc(g.y)) = 0 THEN new_x ELSE g.x
             to_y == IF MapLookup(Trunc(g.x), Trunc(new_y)) = 0 THEN new_y ELSE g.y
         IN  [g EXCEPT !.x = to_x, !.y = to_y,
                       !.trail = Append(@, [from |-> <<g.x, g.y>>,
                                            new |-> <<new_x, new_y>>,
                                            to |-> <<to_x, to_y>>])]

\* A movement block that commits the proposed point without the map test
TryMove_NoCheck(g, pressed, sign, q) ==
    IF ~pressed \/ g.err THEN g
    ELSE LET new_x == g.x + sign * MulRound(Cos(g.ang, q), move_speed)
             new_y == g.y + sign * MulRound(Sin(g.ang, q), move_speed)
         IN  [g EXCEPT !.x = new_x, !.y = new_y,
                       !.trail = Append(@, [from |-> <<g.x, g.y>>,
                                            new |-> <<new_x, new_y>>,
                                            to |-> <<new_x, new_y>>])]

\* One "if keys[...]" movement block: propose (x, y) + sign * speed * (cos, sin)
\* of the heading turned by q quarter turns; commit when the cell is 0.
\* An IndexError leaves the handler at once (g.err), as does any earlier one.
TryMove(g, pressed, sign, q) ==
    IF ~pressed \/ g.err THEN g
    ELSE LET new_x == g.x + sign * MulRound(Cos(g.ang, q), move_speed)
             new_y == g.y + sign * MulRound(Sin(g.ang, q), move_speed)
             cell == MapLookup(Trunc(new_x), Trunc(new_y))
             to == IF cell = 0 THEN <<new_x, new_y>> ELSE <<g.x, g.y>>
         IN  IF cell = -1
             THEN [g EXCEPT !.err = TRUE,
                            !.trail = Append(@, [from |-> <<g.x, g.y>>,
                                                 new |-> <<new_x, new_y>>,
                                                 to |-> <<g.x, g.y>>])]
             ELSE [g EXCEPT !.x = to[1], !.y = to[2],
                            !.trail = Append(@, [from |-> <<g.x, g.y>>,
                                                 new |-> <<new_x, new_y>>,
                                                 to |-> to])]

\* shoot() with a cooldown shorter than the life of an impact
shoot_ShortCooldown(g) ==
    LET hit == cast_ray(g.x, g.y, g.ang)
    IN  [g EXCEPT !.flash = FlashTicks,
                  !.cool = FlashTicks,
                  !.fired = TRUE,
                  !.impacts = IF hit[1] < HitRange * Scale
                              THEN Append(@, <<GAME_WIDTH \div 2, ImpactTicks>>)
                              ELSE @]

shoot(g) ==
    LET hit == cast_ray(g.x, g.y, g.ang)
    IN  [g EXCEPT !.flash = FlashTicks,
                  !.cool = CooldownTicks,
                  !.fired = TRUE,
                  !.impacts = IF hit[1] < HitRange * Scale
                              THEN Append(@, <<GAME_WIDTH \div 2, ImpactTicks>>)
                              ELSE @]

Rotate(g, ks) ==
    LET a1 == IF "LEFT" \in ks THEN g.ang - rot_speed ELSE g.ang
        a2 == IF "RIGHT" \in ks THEN a1 + rot_speed ELSE a1
    IN  [g EXCEPT !.ang = a2]

\* A fire request honoured whatever the cooldown
Fire_NoGate(g, ks) ==
    IF ~g.err /\ "SPACE" \in ks THEN shoot(g) ELSE g

Fire(g, ks) ==
    IF ~g.err /\ "SPACE" \in ks /\ g.cool = 0 THEN shoot(g) ELSE g

handle_input(g, ks) ==
    LET g0 == [g EXCEPT !.trail = <<>>, !.fired = FALSE]
        g1 == Rotate(g0, ks)
        g2 == TryMove(g1, "UP" \in ks, 1, 0)
        g3 == TryMove(g2, "DOWN" \in ks, -1, 0)
        g4 == TryMove(g3, "A" \in ks, 1, -1)
        g5 == TryMove(g4, "D" \in ks, 1, 1)
    IN  Fire(g5, ks)

\* A timer decremented without the "> 0" test
DecTimer_Neg(t) == t - 1

DecTimer(t) == IF t > 0 THEN t - 1 ELSE t

Expire(imps) == SelectSeq(imps, LAMBDA imp : imp[2] > 0)

update_timers(g) ==
    [g EXCEPT !.flash = DecTimer(@),
              !.cool = DecTimer(@),
              !.impacts = Expire([i \in 1..Len(@) |-> <<@[i][1], DecTimer(@[i][2])>>])]

\* The game's fields as a record, and back
Game ==
    [x |-> player_x, y |-> player_y, ang |-> player_angle,
     flash |-> muzzle_flash_timer, cool |-> shot_cooldown,
     impacts |-> bullet_impacts, err |-> FALSE, trail |-> trail, fired |-> fired]

SetGame(g) ==
    /\ player_x' = g.x
    /\ player_y' = g.y
    /\ player_angle' = g.ang
    /\ muzzle_flash_timer' = g.flash
    /\ shot_cooldown' = g.cool
    /\ bullet_impacts' = g.impacts
    /\ trail' = g.trail
    /\ fired' = g.fired

----------------------------------------------------------------------------
(* RaycastGame.__init__ and the entry of run_with_wled_stream *)

\* The player's start
InitPlayer ==
    /\ player_x = StartX
    /\ player_y = StartY
    /\ player_angle = 0

\* The other fields, the loop's locals and the history
InitRest ==
    /\ muzzle_flash_timer = 0
    /\ shot_cooldown = 0
    /\ bullet_impacts = <<>>
    /\ running = TRUE
    /\ now = 0
    /\ last_wled_update = 0
    /\ frame_count = 0
    /\ surface = "none"
    /\ keys = {}
    /\ trail = <<>>
    /\ fired = FALSE
    /\ expired = 0
    /\ steps = <<>>
    /\ outcome = "none"
    /\ ret = "none"
    /\ since = -1
    /\ free = 0
    /\ iters = 0
    /\ attempts = 0
    /\ responses = 0
    /\ last_attempt = -1
    /\ prev_attempt = -1
    /\ sent = "none"

InitGame == InitPlayer /\ InitRest

\* No pixel array is being built
InitIdle ==
    /\ m_tool = "none"
    /\ m_frame = "none"
    /\ m_pos = 0
    /\ m_leds = <<>>
    /\ m_writes = <<>>
    /\ m_idx = -1

\* No ray is being cast
InitNoRay ==
    /\ ray_x = 0
    /\ ray_y = 0
    /\ ray_n = 0
    /\ ray_ret = <<>>

----------------------------------------------------------------------------
(* The steps of the loop body that change the game *)

Min(a, b) == IF a <= b THEN a ELSE b

\* self.handle_input() with the key snapshot ks, the heading capped at cap
\* steps either way
HandleInputWithin(ks, cap) ==
    /\ pc = "input"
    /\ Abs(Rotate(Game, ks).ang) <= cap
    /\ LET g == handle_input(Game, ks)
       IN  /\ SetGame(g)
           /\ pc' = IF g.err THEN "crashed" ELSE "timers"
           /\ since' = IF g.fired THEN 0
                       ELSE IF since = -1 THEN -1
                       ELSE Min(since + 1, CooldownTicks)
    /\ keys' = ks
    /\ steps' = Append(steps, "input")
    /\ UNCHANGED <<running, expired, now, last_wled_update, frame_count, surface,
                   outcome, ret, iters, attempts, responses, last_attempt,
                   prev_attempt, sent, mapVars, rayVars>>

\* self.handle_input() with the heading capped at MaxTurn steps either way
HandleInput(ks) == HandleInputWithin(ks, MaxTurn)

\* self.update_timers().  The history of handle_input is forgotten with it.
UpdateTimers ==
    /\ pc = "timers"
    /\ LET g == update_timers(Game)
       IN  /\ SetGame([g EXCEPT !.trail = <<>>, !.fired = FALSE])
           /\ expired' = Len(bullet_impacts) - Len(g.impacts)
    /\ pc' = "render"
    /\ keys' = {}
    /\ steps' = Append(steps, "timers")
    /\ UNCHANGED <<running, since, free, now, last_wled_update, frame_count,
                   surface, outcome, ret, iters, attempts, responses,
                   last_attempt, prev_attempt, sent, mapVars, rayVars>>

\* The rest of an iteration in which nothing is streamed and no quit event
\* arrives: render, display, clock.tick, the loop test and the event poll.
LoopBack ==
    /\ pc = "render"
    /\ pc' = "input"
    /\ steps' = <<>>
    /\ expired' = 0
    /\ UNCHANGED <<gameVars, tickVars, running, free, now, last_wled_update,
                   frame_count, surface, outcome, ret, iters, attempts,
                   responses, last_attempt, prev_attempt, sent, mapVars, rayVars>>

----------------------------------------------------------------------------
(* Movement: the player walks from the start to the wall block at map[2][2] *)
(* and along it (DOWN and A held), then any keys but SPACE are pressed for  *)
(* up to MaxFreeTicks ticks.                                                *)

MoveKeys == {"LEFT", "RIGHT", "UP", "DOWN", "A", "D"}
WalkKeys == {"DOWN", "A"}

InitMove == InitGame /\ InitIdle /\ InitNoRay /\ pc = "input"

Walk ==
    /\ free = 0
    /\ HandleInput(WalkKeys)
    /\ free' = free

FreeMove ==
    /\ free < MaxFreeTicks
    /\ \E ks \in SUBSET MoveKeys : HandleInput(ks)
    /\ free' = free + 1

NextMove == Walk \/ FreeMove \/ UpdateTimers \/ LoopBack

SpecMove == InitMove /\ [][NextMove]_vars

----------------------------------------------------------------------------
(* Roaming: the player stands at a point next to a border wall, the start   *)
(* or a point between, at any heading, and any keys but SPACE are pressed   *)
(* for up to MaxFreeTicks ticks.  The points are start + (i, j) * move_speed *)
(* in EMPTY cells: at heading 0 the four moves are along the axes, so the    *)
(* player walks to each of them through the corridors and turns there.      *)

\* 1.0, 1.05, 3.5 and 6.95: the west/north edge of cell 1, one step off it,
\* the start, and the last step of cell 6
RoamCoords == {StartX - 50 * move_speed, StartX - 49 * move_speed, StartX,
               StartX + 69 * move_speed}

\* Headings all around (-3.15 to 3.15 rad), every fourth step of 0.05 rad
RoamAngles == {4 * i : i \in -15..15} \cup {-63, 63}

\* The last heading the cos/sin table covers
TableTurn == Len(CosTable) - 1

InitRoam ==
    /\ player_x \in RoamCoords
    /\ player_y \in RoamCoords
    /\ MapLookup(Trunc(player_x), Trunc(player_y)) = 0
    /\ player_angle \in RoamAngles
    /\ InitRest
    /\ InitIdle
    /\ InitNoRay
    /\ pc = "input"

RoamMove ==
    /\ free < MaxFreeTicks
    /\ \E ks \in SUBSET MoveKeys : HandleInputWithin(ks, TableTurn)
    /\ free' = free + 1

NextRoam == RoamMove \/ UpdateTimers \/ LoopBack

SpecRoam == InitRoam /\ [][NextRoam]_vars

----------------------------------------------------------------------------
(* Firing: the player moves along the corridor of row 3 (UP, DOWN) and     *)
(* requests fire (SPACE) in any combination, tick after tick.              *)

FireSnapshots == {{}, {"SPACE"}, {"DOWN"}, {"DOWN", "SPACE"}, {"UP"}, {"UP", "SPACE"}}

FireTick ==
    /\ \E ks \in FireSnapshots : HandleInput(ks)
    /\ free' = free

NextFire == FireTick \/ UpdateTimers \/ LoopBack

SpecFire == InitMove /\ [][NextFire]_vars

----------------------------------------------------------------------------
(* cast_ray's marching loop, pass by pass, from the origins and angles of   *)
(* RayOrigins and RayAngles                                                 *)

\* (self.player_x, self.player_y) when cast_ray is called: the start, the
\* middle of the corner cell (1, 1), the middle of the wall cell (0, 0), and
\* points off the grid on each of its four sides
RayOrigins == {<<35000, 35000>>, <<15000, 15000>>, <<5000, 5000>>,
               <<-15000, 35000>>, <<95000, 35000>>,
               <<35000, -15000>>, <<35000, 95000>>}

\* The angle cast_ray is called with, in steps of 0.05 rad
RayAngles == {-63, -47, -31, -16, 0, 1, 16, 31, 47, 63}

InitRay ==
    /\ \E o \in RayOrigins : player_x = o[1] /\ player_y = o[2]
    /\ player_angle \in RayAngles
    /\ InitRest
    /\ InitIdle
    /\ pc = "cast"
    /\ ray_x = player_x
    /\ ray_y = player_y
    /\ ray_n = 0
    /\ ray_ret = <<>>

\* One pass of "for _ in range(200)": step, truncate, test, return on a hit
CastRayStep ==
    /\ pc = "cast"
    /\ ray_n < ray_max_steps
    /\ LET dx == RayDx(player_angle)
           dy == RayDy(player_angle)
       IN  /\ ray_x' = ray_x + dx
           /\ ray_y' = ray_y + dy
           /\ ray_n' = ray_n + 1
           /\ IF RayHits(ray_x, ray_y, dx, dy, 1)
              THEN /\ ray_ret' = <<Hypot(ray_x + dx - player_x, ray_y + dy - player_y),
                                   (Trunc(ray_x + dx) + Trunc(ray_y + dy)) % 2>>
                   /\ pc' = "returned"
              ELSE /\ ray_ret' = <<>>
                   /\ pc' = "cast"
    /\ UNCHANGED <<gameVars, tickVars, running, expired, free, loopVars, mapVars>>

\* The loop is over without a hit: "return 100, 0"
CastRayExhaust ==
    /\ pc = "cast"
    /\ ray_n = ray_max_steps
    /\ ray_ret' = <<NoHitDist, 0>>
    /\ pc' = "returned"
    /\ UNCHANGED <<gameVars, tickVars, running, expired, free, loopVars, mapVars,
                   ray_x, ray_y, ray_n>>

NextRay == CastRayStep \/ CastRayExhaust

SpecRay == InitRay /\ [][NextRay]_vars

----------------------------------------------------------------------------
(* WLEDStreamer.send_frame_to_wled, as the loop sees it *)

\* What session.post can meet: a response with status 200, a response with
\* another status, a timeout (requests.Timeout), a connection error.
Outcomes == {"ok", "bad_status", "timeout", "conn_error"}
PostRaises(oc) == oc \in {"timeout", "conn_error"}

\* "return response.status_code == 200", as Python prints it
Status200(oc) == IF oc = "ok" THEN "True" ELSE "False"

\* send_frame_to_wled without its try/except
send_frame_to_wled_NoExcept(oc) ==
    IF PostRaises(oc)
    THEN [counted |-> FALSE, returned |-> "False", raised |-> TRUE]
    ELSE [counted |-> TRUE, returned |-> Status200(oc), raised |-> FALSE]

\* send_frame_to_wled counting the frame before the post
send_frame_to_wled_CountFirst(oc) ==
    IF PostRaises(oc)
    THEN [counted |-> TRUE, returned |-> "False", raised |-> FALSE]
    ELSE [counted |-> TRUE, returned |-> Status200(oc), raised |-> FALSE]

\* The post raises: "except Exception: return False", frame_count untouched.
\* The post returns: frame_count += 1, return response.status_code == 200.
send_frame_to_wled(oc) ==
    IF PostRaises(oc)
    THEN [counted |-> FALSE, returned |-> "False", raised |-> FALSE]
    ELSE [counted |-> TRUE, returned |-> Status200(oc), raised |-> FALSE]

----------------------------------------------------------------------------
(* RaycastGame.run_with_wled_stream *)

\* The downscaled frames render can leave on the surface
LoopFrames == {"sky_floor", "coords"}

\* The key snapshots polled in the loop specification
LoopSnapshots == {{}, {"SPACE"}, {"UP"}}

\* "if current_time - last_wled_update >= wled_frame_time"
StreamDue(current_time, last) == current_time - last >= wled_frame_time

\* The stamp moved only by a send that succeeded
StampAfter_OnSuccess(current_time, last, returned) ==
    IF returned = "True" THEN current_time ELSE last

\* "last_wled_update = current_time", whatever the send returned
StampAfter(current_time, last, returned) == current_time

\* "while self.running:"
LoopTest ==
    /\ pc = "while"
    /\ IF running
       THEN /\ pc' = "events"
            /\ iters' = iters + 1
       ELSE /\ pc' = "quit"
            /\ iters' = iters
    /\ steps' = <<>>
    /\ outcome' = "none"
    /\ ret' = "none"
    /\ expired' = 0
    /\ UNCHANGED <<gameVars, tickVars, running, free, now, last_wled_update,
                   frame_count, surface, attempts, responses, last_attempt,
                   prev_attempt, sent, mapVars, rayVars>>

\* The event loop leaving the main loop at once on a quit event (a "break")
Events_Break(quit) ==
    /\ pc = "events"
    /\ quit \/ iters < MaxIters
    /\ running' = IF quit THEN FALSE ELSE running
    /\ pc' = IF quit THEN "quit" ELSE "input"
    /\ steps' = Append(steps, "events")
    /\ UNCHANGED <<gameVars, tickVars, expired, free, now, last_wled_update,
                   frame_count, surface, outcome, ret, iters, attempts,
                   responses, last_attempt, prev_attempt, sent, mapVars, rayVars>>

\* "for event in pygame.event.get()": quit is a QUIT event or ESC pressed.
\* The quit event arrives by iteration MaxIters at the latest.
Events(quit) ==
    /\ pc = "events"
    /\ quit \/ iters < MaxIters
    /\ running' = IF quit THEN FALSE ELSE running
    /\ pc' = "input"
    /\ steps' = Append(steps, "events")
    /\ UNCHANGED <<gameVars, tickVars, expired, free, now, last_wled_update,
                   frame_count, surface, outcome, ret, iters, attempts,
                   responses, last_attempt, prev_attempt, sent, mapVars, rayVars>>

LoopInput ==
    /\ \E ks \in LoopSnapshots : HandleInput(ks)
    /\ free' = free

\* self.render() and the display; the surface is one of LoopFrames
Render ==
    /\ pc = "render"
    /\ \E f \in LoopFrames : surface' = f
    /\ pc' = "stream"
    /\ steps' = Append(steps, "render")
    /\ UNCHANGED <<gameVars, tickVars, running, expired, free, now,
                   last_wled_update, frame_count, outcome, ret, iters, attempts,
                   responses, last_attempt, prev_attempt, sent, mapVars, rayVars>>

\* "if current_time - last_wled_update >= wled_frame_time:" taken: the frame
\* is downscaled and sent, the post meets oc
Stream(oc) ==
    /\ pc = "stream"
    /\ StreamDue(now, last_wled_update)
    /\ LET r == send_frame_to_wled(oc)
       IN  /\ frame_count' = IF r.counted THEN frame_count + 1 ELSE frame_count
           /\ ret' = r.returned
           /\ IF r.raised
              THEN /\ pc' = "crashed"
                   /\ last_wled_update' = last_wled_update
              ELSE /\ pc' = "tick"
                   /\ last_wled_update' = StampAfter(now, last_wled_update, r.returned)
    /\ outcome' = oc
    /\ sent' = surface
    /\ steps' = Append(steps, "stream")
    /\ attempts' = attempts + 1
    /\ responses' = IF PostRaises(oc) THEN responses ELSE responses + 1
    /\ prev_attempt' = last_attempt
    /\ last_attempt' = now
    /\ UNCHANGED <<gameVars, tickVars, running, expired, free, now, surface,
                   iters, mapVars, rayVars>>

\* The same "if" not taken
SkipStream ==
    /\ pc = "stream"
    /\ ~StreamDue(now, last_wled_update)
    /\ pc' = "tick"
    /\ UNCHANGED <<gameVars, tickVars, running, expired, free, now,
                   last_wled_update, frame_count, surface, steps, outcome, ret,
                   iters, attempts, responses, last_attempt, prev_attempt, sent,
                   mapVars, rayVars>>

\* The durations of an iteration: clock.tick(35) stretches it to FrameMs, a
\* post that waits for its timeout makes it that much longer
TickDurations == {FrameMs, FrameMs + PostTimeoutMs}

\* "self.clock.tick(35)": by the next pass the clock has advanced by d
ClockTick(d) ==
    /\ pc = "tick"
    /\ now' = now + d
    /\ pc' = "while"
    /\ UNCHANGED <<gameVars, tickVars, running, expired, free, last_wled_update,
                   frame_count, surface, steps, outcome, ret, iters, attempts,
                   responses, last_attempt, prev_attempt, sent, mapVars, rayVars>>

\* "pygame.quit()" and the final print
Teardown ==
    /\ pc = "quit"
    /\ pc' = "done"
    /\ UNCHANGED <<gameVars, tickVars, running, expired, free, now,
                   last_wled_update, frame_count, surface, steps, outcome, ret,
                   iters, attempts, responses, last_attempt, prev_attempt, sent,
                   mapVars, rayVars>>

InitLoop == InitGame /\ InitIdle /\ InitNoRay /\ pc = "while"

NextLoop ==
    \/ LoopTest
    \/ \E quit \in BOOLEAN : Events(quit)
    \/ LoopInput
    \/ UpdateTimers
    \/ Render
    \/ \E oc \in Outcomes : Stream(oc)
    \/ SkipStream
    \/ \E d \in TickDurations : ClockTick(d)
    \/ Teardown

SpecLoop == InitLoop /\ [][NextLoop]_vars

\* The loop is run by one thread that never stops by itself: every call in
\* the body returns (the post after its timeout at the latest)
SpecLoopFair == SpecLoop /\ WF_vars(NextLoop)

----------------------------------------------------------------------------
(* The pixel-index mappers and the loops that build the pixel array:       *)
(* WLEDStreamer.send_frame_to_wled (wled_game.py) and show_xy_pattern      *)
(* (calibrate_wled.py)                                                     *)

\* MATRIX_WIDTH * MATRIX_HEIGHT, and calibrate_wled.py's range(128)
NumLeds == MATRIX_WIDTH * MATRIX_HEIGHT

None == <<>>
Black == <<0, 0, 0>>

\* The index in column-major order
rgb_to_wled_index_ColMajor(x, y) == x * MATRIX_HEIGHT + y

\* WLEDStreamer.rgb_to_wled_index
rgb_to_wled_index(x, y) == y * MATRIX_WIDTH + x

\* The two-panel index with the second panel's offset left out
calibrate_rgb_to_wled_index_NoOffset(x, y) ==
    IF x < 8
    THEN IF y % 2 = 0 THEN y * 8 + x ELSE y * 8 + (7 - x)
    ELSE LET px == x - 8
             py_from_bottom == 7 - y
         IN  IF py_from_bottom % 2 = 0
             THEN py_from_bottom * 8 + (7 - px)
             ELSE py_from_bottom * 8 + px

\* calibrate_wled.rgb_to_wled_index
calibrate_rgb_to_wled_index(x, y) ==
    IF x < 8
    THEN IF y % 2 = 0 THEN y * 8 + x ELSE y * 8 + (7 - x)
    ELSE LET px == x - 8
             py_from_bottom == 7 - y
             local_index == IF py_from_bottom % 2 = 0
                            THEN py_from_bottom * 8 + (7 - px)
                            ELSE py_from_bottom * 8 + px
         IN  64 + local_index

\* The small frames sent by the game: frame_data[y, x]
Frames == {"red", "sky_floor", "coords"}

FramePixel(f, x, y) ==
    CASE f = "red" -> <<255, 0, 0>>
      [] f = "sky_floor" -> IF y < MATRIX_HEIGHT \div 2 THEN <<50, 50, 100>>
                                                        ELSE <<100, 100, 100>>
      [] f = "coords" -> <<x, y, 200>>

\* The test patterns of calibrate_wled.main: pattern_func(x, y), a colour or None
Patterns == {"corners", "rows", "panels", "checkerboard"}

Pattern(f, x, y) ==
    CASE f = "corners" ->
            IF x = 0 /\ y = 0 THEN <<255, 0, 0>>
            ELSE IF x = 15 /\ y = 0 THEN <<0, 255, 0>>
            ELSE IF x = 0 /\ y = 7 THEN <<0, 0, 255>>
            ELSE IF x = 15 /\ y = 7 THEN <<255, 255, 0>>
            ELSE None
      [] f = "rows" ->
            IF y = 0 THEN <<255, 0, 255>>
            ELSE IF y = 7 THEN <<0, 255, 255>>
            ELSE None
      [] f = "panels" -> IF x < 8 THEN <<255, 0, 0>> ELSE <<0, 0, 255>>
      [] f = "checkerboard" ->
            IF (x + y) % 2 = 0 THEN <<255, 255, 255>> ELSE <<255, 0, 0>>

\* The triple with its channels in reverse
LedColor_BGR(pixel) == <<pixel[3], pixel[2], pixel[1]>>

\* [int(pixel[0]), int(pixel[1]), int(pixel[2])]
LedColor(pixel) == <<pixel[1], pixel[2], pixel[3]>>

\* "leds[idx] = colour" with Python's list indexing; an IndexError ends the
\* loop (m_pos = -1)
StoreLed(idx, colour) ==
    /\ m_idx' = idx
    /\ IF PyIndexOk(idx, NumLeds)
       THEN /\ m_leds' = [m_leds EXCEPT ![PyIndex(idx, NumLeds) - 1] = colour]
            /\ m_writes' = [m_writes EXCEPT ![PyIndex(idx, NumLeds) - 1] = @ + 1]
            /\ m_pos' = m_pos + 1
       ELSE /\ m_pos' = -1
            /\ UNCHANGED <<m_leds, m_writes>>

\* One pass of send_frame_to_wled's "for y ... for x ..." loop
SendFrameStep ==
    /\ m_tool = "game"
    /\ m_pos \in 0..(NumLeds - 1)
    /\ LET x == m_pos % MATRIX_WIDTH
           y == m_pos \div MATRIX_WIDTH
           pixel == FramePixel(m_frame, x, y)
           idx == rgb_to_wled_index(x, y)
       IN  StoreLed(idx, LedColor(pixel))
    /\ UNCHANGED <<gameVars, tickVars, running, pc, expired, free, loopVars,
                   m_tool, m_frame, rayVars>>

\* One pass of show_xy_pattern's "for y ... for x ..." loop
ShowPatternStep ==
    /\ m_tool = "calibrate"
    /\ m_pos \in 0..(NumLeds - 1)
    /\ LET x == m_pos % MATRIX_WIDTH
           y == m_pos \div MATRIX_WIDTH
           color == Pattern(m_frame, x, y)
       IN  IF color # None
           THEN StoreLed(calibrate_rgb_to_wled_index(x, y), color)
           ELSE /\ m_pos' = m_pos + 1
                /\ m_idx' = -1
                /\ UNCHANGED <<m_leds, m_writes>>
    /\ UNCHANGED <<gameVars, tickVars, running, pc, expired, free, loopVars,
                   m_tool, m_frame, rayVars>>

\* send_frame_to_wled starts from [None] * 128, show_xy_pattern from 128
\* times [0, 0, 0]
InitMap ==
    /\ InitGame
    /\ InitNoRay
    /\ pc = "while"
    /\ \/ /\ m_tool = "game"
          /\ m_frame \in Frames
          /\ m_leds = [i \in 0..(NumLeds - 1) |-> None]
       \/ /\ m_tool = "calibrate"
          /\ m_frame \in Patterns
          /\ m_leds = [i \in 0..(NumLeds - 1) |-> Black]
    /\ m_pos = 0
    /\ m_writes = [i \in 0..(NumLeds - 1) |-> 0]
    /\ m_idx = -1

NextMap == SendFrameStep \/ ShowPatternStep

SpecMap == InitMap /\ [][NextMap]_vars

\* The array send_frame_to_wled has built once its loop is over: each entry
\* holds what the last pass that wrote it stored, None if no pass wrote it
OrderedLeds(f) ==
    [i \in 0..(NumLeds - 1) |->
        LET passes == {p \in 0..(NumLeds - 1) :
                         rgb_to_wled_index(p % MATRIX_WIDTH, p \div MATRIX_WIDTH) = i}
        IN  IF passes = {} THEN None
            ELSE LET p == CHOOSE q \in passes : \A o \in passes : o <= q
                 IN  LedColor(FramePixel(f, p % MATRIX_WIDTH, p \div MATRIX_WIDTH))]

----------------------------------------------------------------------------
(* Claims about movement (SpecMove) *)

IsWall(p) == MapLookup(Trunc(p[1]), Trunc(p[2])) = 1
IsEmpty(p) == MapLookup(Trunc(p[1]), Trunc(p[2])) = 0

\* C3: the player's position, truncated to a cell, is always an EMPTY cell of
\* the map; every move handle_input proposed into a WALL cell left the
\* position as it was, and every move ended either where it started or at the
\* proposed point (no coordinate updated alone, no sliding, no clamping).
C3_PositionNeverInWall ==
    /\ IsEmpty(<<player_x, player_y>>)
    /\ \A i \in 1..Len(trail) :
          /\ IsWall(trail[i].new) => trail[i].to = trail[i].from
          /\ trail[i].to \in {trail[i].from, trail[i].new}
          /\ IsEmpty(trail[i].to)
          /\ i > 1 => trail[i].from = trail[i - 1].to
    /\ trail # <<>> => <<player_x, player_y>> = trail[Len(trail)].to

\* A move into a wall was rejected while the heading was turned and the
\* proposed point differed from the position in both coordinates.
C3_Witness ==
    /\ pc = "timers"
    /\ player_angle # 0
    /\ \E i \in 1..Len(trail) :
          /\ IsWall(trail[i].new)
          /\ trail[i].new[1] # trail[i].from[1]
          /\ trail[i].new[2] # trail[i].from[2]
          /\ trail[i].to = trail[i].from
    /\ \E i \in 1..Len(trail) : trail[i].to = trail[i].new

\* C14: the collision check indexes self.map[int(new_y)][int(new_x)] with no
\* bounds test, yet every destination handle_input proposes has int(new_x)
\* and int(new_y) in 0..7, so the lookup neither raises nor wraps to a
\* negative index, and the player stays in the interior cells 1..6.
C14_LookupInBounds ==
    /\ pc # "crashed"
    /\ \A i \in 1..Len(trail) :
          /\ Trunc(trail[i].new[1]) \in 0..7
          /\ Trunc(trail[i].new[2]) \in 0..7
          /\ trail[i].new[1] >= 0
          /\ trail[i].new[2] >= 0
          /\ MapLookup(Trunc(trail[i].new[1]), Trunc(trail[i].new[2])) \in {0, 1}
    /\ Trunc(player_x) \in 1..6
    /\ Trunc(player_y) \in 1..6

\* In one tick, at a turned heading, a move was proposed into the border
\* column 0 and another into the border row 7.
C14_Witness ==
    /\ pc = "timers"
    /\ Abs(player_angle) > 1
    /\ \E i \in 1..Len(trail) : Trunc(trail[i].new[1]) = 0
    /\ \E i \in 1..Len(trail) : Trunc(trail[i].new[2]) = 7

----------------------------------------------------------------------------
(* Claims about firing and the timers (SpecFire) *)

\* C4: a fire request is honoured exactly when shot_cooldown = 0.  An honoured
\* request sets the cooldown to 10 and the muzzle flash to 5, appends at most
\* one impact, and comes at least 10 ticks after the previous honoured one, so
\* the requests of one cooldown window produce one shoot.  A request made
\* while shot_cooldown > 0 changes no timer and no impact (and, with no other
\* key pressed, nothing of the game).
C4_FireGatedByCooldown ==
    [][(pc = "input" /\ pc' # "input") =>
         /\ fired' <=> ("SPACE" \in keys' /\ shot_cooldown = 0)
         /\ fired' =>
               /\ shot_cooldown' = 10
               /\ muzzle_flash_timer' = 5
               /\ \/ bullet_impacts' = bullet_impacts
                  \/ \E imp \in {<<GAME_WIDTH \div 2, 10>>} :
                        bullet_impacts' = Append(bullet_impacts, imp)
               /\ since = -1 \/ since + 1 >= 10
         /\ ("SPACE" \in keys' /\ shot_cooldown > 0) =>
               /\ shot_cooldown' = shot_cooldown
               /\ muzzle_flash_timer' = muzzle_flash_timer
               /\ bullet_impacts' = bullet_impacts
         /\ (keys' = {"SPACE"} /\ shot_cooldown > 0) => UNCHANGED gameVars
      ]_vars

\* A fire request was made during the cooldown of an earlier shot that left
\* an impact, and was ignored.
C4_Witness ==
    /\ pc = "timers"
    /\ "SPACE" \in keys
    /\ ~fired
    /\ shot_cooldown > 0
    /\ since > 0
    /\ Len(bullet_impacts) = 1

\* C5: update_timers decrements every non-zero timer by one and leaves a zero
\* timer at zero, removes exactly the impacts whose lifetime is zero after the
\* decrement and keeps the others in order; no timer is negative afterwards
\* and every remaining impact has lifetime >= 1.
C5_UpdateTimers ==
    [][(pc = "timers" /\ pc' = "render") =>
         LET kept == SelectSeq(bullet_impacts, LAMBDA imp : imp[2] > 1)
         IN  /\ muzzle_flash_timer' =
                  IF muzzle_flash_timer > 0 THEN muzzle_flash_timer - 1 ELSE 0
             /\ shot_cooldown' = IF shot_cooldown > 0 THEN shot_cooldown - 1 ELSE 0
             /\ muzzle_flash_timer' >= 0
             /\ shot_cooldown' >= 0
             /\ Len(bullet_impacts') = Len(kept)
             /\ \A j \in 1..Len(kept) :
                   /\ bullet_impacts'[j][1] = kept[j][1]
                   /\ bullet_impacts'[j][2] = kept[j][2] - 1
                   /\ bullet_impacts'[j][2] >= 1
             /\ expired' = Len(bullet_impacts) - Len(kept)
      ]_vars

\* update_timers has just removed an expired impact, with both timers at zero.
C5_Witness ==
    /\ pc = "render"
    /\ expired = 1
    /\ bullet_impacts = <<>>
    /\ muzzle_flash_timer = 0
    /\ shot_cooldown = 0

\* C13: with handle_input before update_timers in each tick, at most one
\* bullet impact is active at any time, honoured fires are at least 10 ticks
\* apart, every impact is at column 160 (GAME_WIDTH // 2), the lifetime
\* render sees is in 1..9 (never the initial 10), and
\* muzzle_flash_timer <= shot_cooldown <= 10 throughout.
C13_SingleImpact ==
    /\ [](/\ Len(bullet_impacts) <= 1
          /\ \A i \in 1..Len(bullet_impacts) : bullet_impacts[i][1] = 160
          /\ pc = "render" =>
                \A i \in 1..Len(bullet_impacts) : bullet_impacts[i][2] \in 1..9
          /\ 0 <= muzzle_flash_timer
          /\ muzzle_flash_timer <= shot_cooldown
          /\ shot_cooldown <= 10)
    /\ [][(pc = "input" /\ fired') => (since = -1 \/ since + 1 >= 10)]_vars

\* render sees the impact of a shot in the last tick of its life, the
\* cooldown about to end and the flash over.
C13_Witness ==
    /\ pc = "render"
    /\ bullet_impacts = << <<160, 1>> >>
    /\ shot_cooldown = 1
    /\ muzzle_flash_timer = 0
    /\ since = 8

----------------------------------------------------------------------------
(* Claims about cast_ray (SpecRay) *)

\* The cell of the j-th marched point of the cast in progress
RayCell(j) ==
    <<Trunc(player_x + j * RayDx(player_angle)),
      Trunc(player_y + j * RayDy(player_angle))>>

InGrid(c) == c[1] \in 0..7 /\ c[2] \in 0..7

\* The j-th marched point is in a cell of the grid that is a WALL
WallAt(j) == InGrid(RayCell(j)) /\ Map[RayCell(j)[2] + 1][RayCell(j)[1] + 1] = 1

\* C11: cast_ray marches at most 200 steps of length 0.02 from the player
\* position and returns at the first step k in 1..200 whose truncated cell is
\* inside the grid and is WALL, with distance k * 0.02 (so 0 < distance <= 4)
\* and surface id (cell_x + cell_y) mod 2; a marched point outside the grid is
\* skipped as a non-hit, without an indexing error; when no step hits, it
\* returns the sentinel (100, 0).  The fixed-point steps dx, dy are rounded to
\* 1/Scale of a cell, so off the axis the distance of step k is k * 0.02 to
\* within k units of 1/Scale; along the x axis (angle 0) it is exact.
C11_CastRay ==
    /\ pc # "crashed"
    /\ ray_n \in 0..200
    /\ ray_x = player_x + ray_n * RayDx(player_angle)
    /\ ray_y = player_y + ray_n * RayDy(player_angle)
    /\ Abs(Hypot(RayDx(player_angle), RayDy(player_angle)) - 200) <= 1
    /\ \A j \in 1..(ray_n - 1) : ~WallAt(j)
    /\ pc = "cast" =>
          /\ ray_ret = <<>>
          /\ ray_n >= 1 => ~WallAt(ray_n)
    /\ pc = "returned" =>
          /\ \/ /\ ray_n \in 1..200
                /\ WallAt(ray_n)
                /\ Abs(ray_ret[1] - ray_n * 200) <= ray_n
                /\ player_angle = 0 => ray_ret[1] = ray_n * 200
                /\ 0 < ray_ret[1]
                /\ ray_ret[1] <= 4 * Scale + ray_n
                /\ player_angle = 0 => ray_ret[1] <= 4 * Scale
                /\ ray_ret[2] = (RayCell(ray_n)[1] + RayCell(ray_n)[2]) % 2
             \/ /\ ray_n = 200
                /\ ~WallAt(200)
                /\ ray_ret = <<100 * Scale, 0>>
          /\ ray_ret = cast_ray(player_x, player_y, player_angle)

\* A cast from off the grid has returned a hit after passes whose cell was
\* outside the grid, one of them at a negative index.
C11_Witness ==
    /\ pc = "returned"
    /\ ray_ret[1] < 100 * Scale
    /\ ray_n > 1
    /\ \E j \in 1..(ray_n - 1) : RayCell(j)[1] < 0 \/ RayCell(j)[2] < 0

----------------------------------------------------------------------------
(* Claims about the mappers and the pixel array (SpecMap) *)

\* The pass just done handled column LastX of row LastY
LastX == (m_pos - 1) % 16
LastY == (m_pos - 1) \div 16

\* C1: in native 2D mode the index of (x, y) is y * 16 + x, it lies in
\* 0..127, no index is produced twice, and over all x in 0..15, y in 0..7
\* every index of 0..127 is produced exactly once.
C1_NativeIndexBijection ==
    m_tool = "game" =>
        /\ m_pos \in 0..128
        /\ m_pos > 0 => /\ m_idx = LastY * 16 + LastX
                        /\ m_idx \in 0..127
        /\ \A i \in 0..127 : m_writes[i] <= 1
        /\ m_pos = 128 => \A i \in 0..127 : m_writes[i] = 1

\* send_frame_to_wled's loop has run over a whole frame.
C1_Witness ==
    /\ m_tool = "game"
    /\ m_pos = 128
    /\ m_idx = 127

\* C2: in manual panel-serpentine mode the left panel (x < 8) is mapped into
\* 0..63 and the right panel (x >= 8) into 64..127, each index being
\* panel * 64 + row * 8 + (flipped ? 7 - lx : lx), with row = y flipped on odd
\* rows for the left panel and row = 7 - y flipped on even rows for the right
\* one; no index is produced twice, and a pattern that colours every pixel
\* writes every index of 0..127 exactly once.
C2_PanelIndexBijection ==
    m_tool = "calibrate" =>
        /\ m_pos \in 0..128
        /\ (m_pos > 0 /\ m_idx # -1) =>
              LET panel == IF LastX < 8 THEN 0 ELSE 1
                  lx == LastX - 8 * panel
                  row == IF panel = 0 THEN LastY ELSE 7 - LastY
                  flipped == IF panel = 0 THEN row % 2 = 1 ELSE row % 2 = 0
              IN  /\ m_idx = panel * 64 + row * 8 + (IF flipped THEN 7 - lx ELSE lx)
                  /\ panel = 0 => m_idx \in 0..63
                  /\ panel = 1 => m_idx \in 64..127
        /\ \A i \in 0..127 : m_writes[i] <= 1
        /\ (m_pos = 128 /\ m_frame \in {"panels", "checkerboard"}) =>
              \A i \in 0..127 : m_writes[i] = 1

\* show_xy_pattern's loop has run over the whole checkerboard, ending in the
\* right panel.
C2_Witness ==
    /\ m_tool = "calibrate"
    /\ m_frame = "checkerboard"
    /\ m_pos = 128
    /\ m_idx = 64

\* C9: the array send_frame_to_wled builds from an 8x16 frame has length 128,
\* its entry y * 16 + x is the RGB triple of frame pixel (x, y) (so [255, 0, 0]
\* everywhere for the solid red frame), no entry is left unset, and an entry
\* no pass wrote would be black.
C9_PixelArray ==
    (m_tool = "game" /\ m_pos = 128) =>
        /\ DOMAIN m_leds = 0..127
        /\ \A x \in 0..15 : \A y \in 0..7 :
              /\ m_leds[y * 16 + x] = FramePixel(m_frame, x, y)
              /\ m_frame = "red" => m_leds[y * 16 + x] = <<255, 0, 0>>
        /\ \A i \in 0..127 :
              /\ m_leds[i] # None
              /\ m_writes[i] = 0 => m_leds[i] = <<0, 0, 0>>

\* The array of the solid red frame is complete.
C9_Witness ==
    /\ m_tool = "game"
    /\ m_frame = "red"
    /\ m_pos = 128
    /\ m_leds[127] = <<255, 0, 0>>

----------------------------------------------------------------------------
(* Claims about the main loop (SpecLoop) *)

Failures == {"timeout", "conn_error", "bad_status"}

StreamsIn(st) == Cardinality({i \in DOMAIN st : st[i] = "stream"})

\* C6: no step of the loop ends in an uncaught exception; a send that fails
\* (timeout, connection error, non-200 status) returns False, is the only send
\* of its iteration, leaves position, heading, timers and impacts unchanged,
\* and hands the loop on to clock.tick with last_wled_update stamped, as a
\* successful send does.
C6_FailureSwallowed ==
    [][/\ pc' # "crashed"
       /\ (attempts' = attempts + 1 /\ outcome' \in Failures) =>
             /\ ret' = "False"
             /\ pc' = "tick"
             /\ last_wled_update' = now
             /\ StreamsIn(steps') = 1
             /\ UNCHANGED gameVars
             /\ UNCHANGED <<running, now, iters>>
       /\ (attempts' = attempts + 1 /\ outcome' = "ok") =>
             /\ ret' = "True"
             /\ pc' = "tick"
             /\ last_wled_update' = now
      ]_vars

\* After a post that raised during a shot's cooldown, the loop is in a later
\* iteration.
C6_Witness ==
    /\ pc = "input"
    /\ iters >= 3
    /\ attempts = 1
    /\ responses = 0
    /\ shot_cooldown > 0

\* C7: an iteration streams at most once; last_wled_update is the time of the
\* last attempt whatever its outcome, and any two consecutive attempts are at
\* least 50 ms (1/20 s) apart.
C7_StreamGate ==
    /\ StreamsIn(steps) <= 1
    /\ last_attempt # -1 => last_wled_update = last_attempt
    /\ prev_attempt # -1 => last_attempt - prev_attempt >= 50
    /\ last_attempt # -1 => last_attempt >= 50

\* Two attempts, the first of which failed, with more iterations than
\* attempts.
C7_Witness ==
    /\ attempts = 2
    /\ responses = 1
    /\ outcome = "ok"
    /\ prev_attempt # -1
    /\ iters > attempts

\* C12: an iteration runs its steps in the order events, input, timer update,
\* render and, when due, stream; running is tested once per iteration, at the
\* loop head: the iteration in which quit or ESC is seen goes on to input,
\* update, render and the stream if it is due, no further iteration starts
\* after it, and the loop then terminates.
C12_LoopOrder ==
    /\ [](/\ \E n \in 0..5 :
               steps = SubSeq(<<"events", "input", "timers", "render", "stream">>, 1, n)
          /\ pc \in {"tick", "while"} /\ iters > 0 => Len(steps) >= 4
          /\ pc \in {"quit", "done"} => ~running)
    /\ [][/\ (running /\ ~running') => (pc = "events" /\ pc' = "input")
          /\ (~running /\ pc = "input") => pc' = "timers"
          /\ (~running /\ pc = "timers") => pc' = "render"
          /\ (~running /\ pc = "render") => pc' = "stream"
          /\ (~running /\ pc = "stream") =>
                /\ pc' = "tick"
                /\ now - last_wled_update >= 50 => attempts' = attempts + 1
          /\ (~running /\ pc = "tick") => pc' = "while"
          /\ (~running /\ pc = "while") => (pc' = "quit" /\ iters' = iters)
          /\ iters' # iters => (running /\ pc = "while" /\ iters' = iters + 1)
          /\ pc \in {"quit", "done"} => pc' = "done"
         ]_vars
    /\ (~running ~> pc = "done")

\* The iteration in which the quit event was seen has run to its end, stream
\* included; the loop head has not tested the flag yet.
C12_Witness ==
    /\ ~running
    /\ pc = "while"
    /\ iters >= 2
    /\ steps = <<"events", "input", "timers", "render", "stream">>

\* C8: when the loop has exited and pygame.quit() has run, the last payload
\* posted to the device is the all-off one.
C8_AllOffOnExit ==
    pc = "done" =>
        /\ sent # "none"
        /\ \A i \in 0..127 : OrderedLeds(sent)[i] = <<0, 0, 0>>

\* C10: frame_count counts exactly the posts that returned a response, so it
\* is zero as long as every post raised; no failure stops the loop, and every
\* iteration that reaches clock.tick has run events, input, update and render.
C10_DisconnectedSession ==
    /\ frame_count = responses
    /\ responses = 0 => frame_count = 0
    /\ pc # "crashed"
    /\ pc = "tick" =>
          /\ Len(steps) >= 4
          /\ SubSeq(steps, 1, 4) = <<"events", "input", "timers", "render">>

\* A session of MaxIters iterations has ended in which every post raised.
C10_Witness ==
    /\ pc = "done"
    /\ attempts >= 2
    /\ responses = 0
    /\ frame_count = 0

====
